---- MODULE Spec2Model ----
(***************************************************************************)
(* A model of flaskext.seasurf (src/flaskext/seasurf.py): the SeaSurf      *)
(* guard's exemption registry, its pre-request hook (_before_request),     *)
(* the token accessor (_set_token), and its post-request hook              *)
(* (_after_request), driven by one client whose requests carry arbitrary   *)
(* header, form and cookie values.                                         *)
(*                                                                         *)
(* Character strings that the code inspects character by character (the   *)
(* tokens) are sequences of character codes; all other strings are TLA+    *)
(* strings.  A Python dict (request.headers, request.form,                 *)
(* request.cookies, session) is a function whose DOMAIN is the set of keys *)
(* present.                                                                *)
(***************************************************************************)
EXTENDS Integers, Sequences, FiniteSets, TLC

VARIABLES
    _exempt_views,   \* SeaSurf._exempt_views: the list exempt() appends to
    _csrf_disable,   \* self._csrf_disable, fixed by init_app
    session,         \* flask.session seen as a dict: key -> value
    request,         \* the request the pre-request hook is examining
    outcome,         \* how _before_request ended for that request
    error,           \* _before_request's local `error`: (reason, path)
    request_csrf_token, \* _before_request's local: the supplied token
    csrf_token,      \* _before_request's local: the token compared against
    log,             \* warnings the application logger received for the request
    response,        \* the outgoing response: cookies set on it, its Vary set
    jar,             \* the client's cookie jar (cookies the responses set)
    page_token,      \* the token the last accessor call returned (rendered)
    phase,           \* position in the request cycle
    compare,         \* a call of _constant_time_compare, statement by statement
    calls,           \* concurrent calls of _set_token, statement by statement
    exempt_self      \* the last exempt() call: its self, its view, what it returned

vars == <<_exempt_views, _csrf_disable, session, request, outcome, error,
          request_csrf_token, csrf_token, log, response, jar, page_token,
          phase, compare, calls, exempt_self>>

\* what the request cycle of one guard leaves alone
others == <<compare, calls, exempt_self>>

-----------------------------------------------------------------------------
(* Bounds                                                                  *)

\* randrange(0, _MAX_CSRF_KEY) draws from 0 .. MaxCsrfKey - 1 here
\* (the code's _MAX_CSRF_KEY is 2^64)
MaxCsrfKey == 2

\* exempt() is called at most this many times
MaxExempt == 2

\* the strings given to _constant_time_compare have at most this many characters
MaxLen == 2

-----------------------------------------------------------------------------
(* Strings and bit operations                                              *)

\* ord(c) of a character: characters are their codes
ord(c) == c

RECURSIVE BitXor(_, _)
\* x ^ y on non-negative integers
BitXor(x, y) ==
    IF x = 0 THEN y
    ELSE IF y = 0 THEN x
    ELSE ((((x % 2) + (y % 2)) % 2) + 2 * BitXor(x \div 2, y \div 2))

RECURSIVE BitOr(_, _)
\* x | y on non-negative integers
BitOr(x, y) ==
    IF x = 0 THEN y
    ELSE IF y = 0 THEN x
    ELSE ((IF (x % 2) = 1 \/ (y % 2) = 1 THEN 1 ELSE 0) + 2 * BitOr(x \div 2, y \div 2))

\* the empty string ''
EmptyStr == <<>>

\* the hexadecimal digit characters '0'..'9', 'a'..'f'
HexChar(n) == IF n < 10 THEN 48 + n ELSE 87 + n

RECURSIVE DecimalStr(_)
\* '{}'.format(n) for a non-negative integer n
DecimalStr(n) == IF n < 10 THEN <<48 + n>> ELSE DecimalStr(n \div 10) \o <<48 + (n % 10)>>

RECURSIVE CodeSum(_)
CodeSum(s) == IF s = <<>> THEN 0 ELSE (31 * CodeSum(Tail(s)) + Head(s)) % 256

\* hashlib.sha1(s).hexdigest(): a fixed-length hexadecimal string that is a
\* function of every character of s (the digest is shortened to two digits)
Sha1HexDigest(s) == <<HexChar(CodeSum(s) \div 16), HexChar(CodeSum(s) % 16)>>

-----------------------------------------------------------------------------
(* Module-level constants of seasurf.py                                    *)

REASON_NO_REFERER == <<"Referer checking failed: no referer.">>
\* REASON_BAD_REFERER.format(a, b): the template with its two arguments
REASON_BAD_REFERER(a, b) == <<"Referer checking failed: {} does not match {}.", a, b>>
REASON_BAD_TOKEN == <<"CSRF token missing or incorrect.">>

\* a safe-method tuple that leaves TRACE out
SAFE_METHODS_NoTrace == {"GET", "HEAD", "OPTIONS"}

\* the methods _before_request does not validate (line 158)
SAFE_METHODS == {"GET", "HEAD", "OPTIONS", "TRACE"}

\* app.config.get('SECRET_KEY', ''): the application's secret, "s"
_secret_key == <<115>>

\* app.config.get('CSRF_COOKIE_TIMEOUT', timedelta(days=5)), in days
_csrf_timeout == 5

\* The attributes a SeaSurf instance has once init_app has run: those that
\* init_app assigns, and the class attribute.  There is no `app`.
GuardAttrs == {"_secret_key", "_csrf_disable", "_csrf_timeout", "_exempt_views"}

\* The attributes of the session object.  '_csrf_token' is a key of the
\* session (session['_csrf_token']), never an attribute of it.
SessionAttrs == {"new", "modified", "permanent"}

-----------------------------------------------------------------------------
(* The application around the guard                                        *)

\* the endpoints the application routes to
Endpoints == {"index", "submit"}

\* app.view_functions: endpoint name -> the view function object registered
\* for it by @app.route (the function is an object, its endpoint a string)
view_functions == [e \in Endpoints |-> "<function " \o e \o ">"]

\* the views the application registers with exempt()
ExemptableViews == {view_functions["submit"]}

\* request.path of a request routed to endpoint e
PathOf(e) == "/" \o e

\* the methods a request may have
Methods == {"GET", "HEAD", "OPTIONS", "TRACE", "POST", "PUT"}

\* urlparse.urlparse(url): the scheme and the host name come back in lower
\* case, the port is the explicit port of the netloc, None when it has none
urlparse(url) ==
    CASE url = "https://example.com/" ->
           [scheme |-> "https", hostname |-> "example.com", port |-> "None"]
      [] url = "HTTPS://Example.COM/" ->
           [scheme |-> "https", hostname |-> "example.com", port |-> "None"]
      [] url = "http://example.com/" ->
           [scheme |-> "http", hostname |-> "example.com", port |-> "None"]
      [] url = "https://evil.com/" ->
           [scheme |-> "https", hostname |-> "evil.com", port |-> "None"]
      [] url = "https://example.com:8443/" ->
           [scheme |-> "https", hostname |-> "example.com", port |-> "8443"]

\* request.url_root: the application's own root URL, with the scheme of the
\* transport the request came over
url_root(req) == IF req.is_secure THEN "https://example.com/" ELSE "http://example.com/"

\* values a client may put in its Referer header
RefererValues ==
    {"https://example.com/", "http://example.com/", "https://evil.com/",
     "https://example.com:8443/"}

\* values a client may put in a header it names HTTP_REFERER
LiteralRefererValues == {"HTTPS://Example.COM/", "https://evil.com/"}

\* SeaSurf._generate_token, given the value randrange(0, _MAX_CSRF_KEY) drew
_generate_token(rand) == Sha1HexDigest(DecimalStr(rand) \o _secret_key)

\* token strings a client may send: it may guess or replay these
ClientTokens == {_generate_token(0), _generate_token(1)}

\* A dict with at most the key `name`: opt is <<>> (absent) or <<value>>
Field(name, opt) == IF opt = <<>> THEN <<>> ELSE name :> opt[1]

\* <<>> and <<v>> for every v of S
Optional(S) == {<<>>} \cup {<<v>> : v \in S}

\* the header names a client may send
RequestHeaders ==
    { Field("Referer", r) @@ Field("HTTP_REFERER", lr)
        @@ Field("X-CSRFToken", x) @@ Field("HTTP_X_CSRFTOKEN", lx) :
        r \in Optional(RefererValues), lr \in Optional(LiteralRefererValues),
        x \in Optional(ClientTokens), lx \in Optional(ClientTokens) }

\* every request the client may send
Requests ==
    { [method |-> m, endpoint |-> e, is_secure |-> sec, headers |-> h,
       form |-> Field("_csrf_token", f), cookies |-> Field("_csrf_token", c)] :
        m \in Methods, e \in Endpoints, sec \in BOOLEAN, h \in RequestHeaders,
        f \in Optional(ClientTokens \cup {EmptyStr}), c \in Optional(ClientTokens) }

\* d.get(key, default) of a dict
Get(d, key, default) == IF key \in DOMAIN d THEN d[key] ELSE default

\* x in lst, for a list
InList(x, lst) == \E i \in 1..Len(lst) : lst[i] = x

-----------------------------------------------------------------------------
(* The pure functions of seasurf.py                                        *)

\* _same_origin(url1, url2)
_same_origin(url1, url2) ==
    LET p1 == urlparse(url1)
        p2 == urlparse(url2)
    IN  <<p1.scheme, p1.hostname, p1.port>> = <<p2.scheme, p2.hostname, p2.port>>

RECURSIVE XorAccumulate(_, _, _)
\* the loop of _constant_time_compare: result |= ord(x) ^ ord(y) over zip
XorAccumulate(val1, val2, result) ==
    IF val1 = <<>> \/ val2 = <<>> THEN result
    ELSE XorAccumulate(Tail(val1), Tail(val2),
                       BitOr(result, BitXor(ord(Head(val1)), ord(Head(val2)))))

\* _constant_time_compare(val1, val2)
_constant_time_compare(val1, val2) ==
    IF Len(val1) # Len(val2) THEN FALSE
    ELSE XorAccumulate(val1, val2, 0) = 0

-----------------------------------------------------------------------------
(* SeaSurf._before_request                                                 *)

\* a local variable that has not been assigned
Unassigned == <<-1>>

\* the local `error` before any assignment to it
NoError == [reason |-> <<>>, path |-> ""]

\* no request is being examined
NoRequest ==
    [method |-> "", endpoint |-> "", is_secure |-> FALSE, headers |-> <<>>,
     form |-> <<>>, cookies |-> <<>>]

\* the hook returns None: the request goes on to its view
Return == [outcome |-> "continue", error |-> NoError, log |-> <<>>]

\* self.app.logger.warning('Forbidden ({}): {}'.format(*error)) followed by
\* return abort(403).  Evaluating self.app comes first: on an instance with
\* no attribute `app` it raises AttributeError, and neither the warning nor
\* the abort is reached.
Forbid(err) ==
    IF "app" \in GuardAttrs
    THEN [outcome |-> "403", error |-> err,
          log |-> <<[format |-> "Forbidden ({}): {}", args |-> err]>>]
    ELSE [outcome |-> "AttributeError", error |-> err, log |-> <<>>]

\* the token check of _before_request (lines 177-189)
CheckToken(req) ==
    LET cookie == Get(req.cookies, "_csrf_token", EmptyStr)
        form_token == IF req.method = "POST"
                      THEN Get(req.form, "_csrf_token", EmptyStr)
                      ELSE EmptyStr
        supplied == IF form_token = EmptyStr
                    THEN Get(req.headers, "HTTP_X_CSRFTOKEN", EmptyStr)
                    ELSE form_token
        locals == [request_csrf_token |-> supplied, csrf_token |-> cookie]
    IN  IF ~_constant_time_compare(supplied, cookie)
        THEN Forbid([reason |-> REASON_BAD_TOKEN, path |-> PathOf(req.endpoint)])
               @@ locals
        ELSE Return @@ locals

\* the strict referer check of _before_request (lines 163-175); only called
\* for a request with is_secure
CheckReferer(req) ==
    LET nolocals == [request_csrf_token |-> Unassigned, csrf_token |-> Unassigned]
        allowed_referer == url_root(req)
    IN  IF "HTTP_REFERER" \notin DOMAIN req.headers
        THEN Forbid([reason |-> REASON_NO_REFERER, path |-> PathOf(req.endpoint)])
               @@ nolocals
        ELSE IF ~_same_origin(req.headers["HTTP_REFERER"], allowed_referer)
        THEN Forbid([reason |-> REASON_BAD_REFERER(req.headers["HTTP_REFERER"],
                                                   allowed_referer),
                     path |-> PathOf(req.endpoint)])
               @@ nolocals
        ELSE CheckToken(req)

\* _before_request without its first test, of self._csrf_disable
_before_request_NoDisable(req) ==
    LET nolocals == [request_csrf_token |-> Unassigned, csrf_token |-> Unassigned]
    IN  IF req.method \notin SAFE_METHODS
        THEN IF InList(req.endpoint, _exempt_views) THEN Return @@ nolocals
             ELSE IF req.is_secure THEN CheckReferer(req)
             ELSE CheckToken(req)
        ELSE Return @@ nolocals

\* _before_request, for the current request req: how it ends, and the
\* values of its locals when it does
_before_request(req) ==
    LET nolocals == [request_csrf_token |-> Unassigned, csrf_token |-> Unassigned]
    IN  IF _csrf_disable THEN Return @@ nolocals
        ELSE IF req.method \notin SAFE_METHODS
        THEN IF InList(req.endpoint, _exempt_views) THEN Return @@ nolocals
             ELSE IF req.is_secure THEN CheckReferer(req)
             ELSE CheckToken(req)
        ELSE Return @@ nolocals

-----------------------------------------------------------------------------
(* The session token and the response                                      *)

\* hasattr(session, name): name is an attribute of the session object
hasattr_session(name) == name \in SessionAttrs

\* _set_token without its test that the session holds no token yet
_set_token_Rebinds(rand) == ("_csrf_token" :> _generate_token(rand)) @@ session

\* the session after _set_token, given the value randrange drew
_set_token(rand) ==
    LET token == _generate_token(rand)
    IN  IF "_csrf_token" \notin DOMAIN session
        THEN session @@ ("_csrf_token" :> token)
        ELSE session

\* a response as the view (or the framework, for an abort) made it
FreshResponse == [cookies |-> <<>>, vary |-> {}]

\* _after_request(response): the response it returns
_after_request(resp) ==
    IF ~hasattr_session("_csrf_token") THEN resp
    ELSE [cookies |-> ("_csrf_token" :> [value |-> session["_csrf_token"],
                                         max_age |-> _csrf_timeout])
                      @@ resp.cookies,
          vary |-> resp.vary \cup {"Cookie"}]

\* the client's cookie jar after it received resp
StoreCookies(cookies, resp) ==
    [k \in DOMAIN resp.cookies \cup DOMAIN cookies |->
        IF k \in DOMAIN resp.cookies THEN resp.cookies[k].value ELSE cookies[k]]

-----------------------------------------------------------------------------
(* The state machine                                                       *)

\* no call of _constant_time_compare is being followed
NoCompare == [pc |-> "none", val1 |-> <<>>, val2 |-> <<>>, i |-> 0, result |-> 0,
              ret |-> FALSE]

\* exempt() has not been called
NoExempt == [self |-> "none", view |-> "", ret |-> ""]

\* the application configurations: CSRF_DISABLE and TESTING, each set to
\* True or False or not set
Configs ==
    { Field("CSRF_DISABLE", d) @@ Field("TESTING", t) :
        d \in Optional(BOOLEAN), t \in Optional(BOOLEAN) }

\* the value init_app gives self._csrf_disable:
\* app.config.get('CSRF_DISABLE', app.config.get('TESTING', False))
init_app_csrf_disable(config) ==
    Get(config, "CSRF_DISABLE", Get(config, "TESTING", FALSE))

Init ==
    /\ _exempt_views = <<>>
    /\ _csrf_disable \in {init_app_csrf_disable(config) : config \in Configs}
    /\ session = <<>>
    /\ request = NoRequest
    /\ outcome = "none"
    /\ error = NoError
    /\ request_csrf_token = Unassigned
    /\ csrf_token = Unassigned
    /\ log = <<>>
    /\ response = FreshResponse
    /\ jar = <<>>
    /\ page_token = Unassigned
    /\ phase = "idle"
    /\ compare = NoCompare
    /\ calls = <<>>
    /\ exempt_self = NoExempt

\* SeaSurf.exempt(view), between requests
Exempt(view) ==
    /\ phase = "idle"
    /\ Len(_exempt_views) < MaxExempt
    /\ _exempt_views' = Append(_exempt_views, view)
    /\ UNCHANGED others
    /\ UNCHANGED <<_csrf_disable, session, request, outcome, error,
                   request_csrf_token, csrf_token, log, response, jar,
                   page_token, phase>>

\* a request arrives and the pre-request hook runs on it
BeforeRequest(req) ==
    /\ phase = "idle"
    /\ request' = req
    /\ LET r == _before_request(req)
       IN  /\ outcome' = r.outcome
           /\ error' = r.error
           /\ log' = r.log
           /\ request_csrf_token' = r.request_csrf_token
           /\ csrf_token' = r.csrf_token
    /\ response' = FreshResponse
    /\ phase' = "before"
    /\ UNCHANGED others
    /\ UNCHANGED <<_exempt_views, _csrf_disable, session, jar, page_token>>

\* the framework acts on the hook's outcome: the view runs, or the 403 is
\* made into the response, or the exception propagates
Dispatch ==
    /\ phase = "before"
    /\ phase' = CASE outcome = "continue" -> "view"
                  [] outcome = "403" -> "aborted"
                  [] OTHER -> "failed"
    /\ request' = NoRequest
    /\ error' = NoError
    /\ request_csrf_token' = Unassigned
    /\ csrf_token' = Unassigned
    /\ UNCHANGED others
    /\ UNCHANGED <<_exempt_views, _csrf_disable, session, outcome, log,
                   response, jar, page_token>>

\* the view's template calls the token accessor csrf_token, and the page
\* rendered for the client carries what it returned
SetToken(rand) ==
    /\ phase = "view"
    /\ session' = _set_token(rand)
    /\ page_token' = session'["_csrf_token"]
    /\ UNCHANGED others
    /\ UNCHANGED <<_exempt_views, _csrf_disable, request, outcome, error,
                   request_csrf_token, csrf_token, log, response, jar, phase>>

\* the post-request hook runs on the response, which the client receives
AfterRequest ==
    /\ phase \in {"view", "aborted"}
    /\ response' = _after_request(response)
    /\ jar' = StoreCookies(jar, response')
    /\ phase' = "after"
    /\ UNCHANGED others
    /\ UNCHANGED <<_exempt_views, _csrf_disable, session, request, outcome,
                   error, request_csrf_token, csrf_token, log, page_token>>

\* the request is over
Finish ==
    /\ phase \in {"after", "failed"}
    /\ phase' = "idle"
    /\ outcome' = "none"
    /\ log' = <<>>
    /\ response' = FreshResponse
    /\ UNCHANGED others
    /\ UNCHANGED <<_exempt_views, _csrf_disable, session, request, error,
                   request_csrf_token, csrf_token, jar, page_token>>

\* the client sends some request while none is being handled
HandleRequest == phase = "idle" /\ \E req \in Requests : BeforeRequest(req)

Next ==
    \/ \E view \in ExemptableViews : Exempt(view)
    \/ HandleRequest
    \/ Dispatch
    \/ \E rand \in 0..(MaxCsrfKey - 1) : SetToken(rand)
    \/ AfterRequest
    \/ Finish

Spec == Init /\ [][Next]_vars

-----------------------------------------------------------------------------
(* What the claims speak of                                                *)

\* the pre-request hook has just run on `request`
HookRan == phase = "before"

\* the request's method is not GET, HEAD, OPTIONS or TRACE
UnsafeMethod == request.method \notin {"GET", "HEAD", "OPTIONS", "TRACE"}

\* the view the request is dispatched to was registered through exempt()
ViewExempted == InList(view_functions[request.endpoint], _exempt_views)

\* the token bound to the session, '' when none is bound
SessionToken == Get(session, "_csrf_token", EmptyStr)

\* the hook allowed the request through to its view
Allowed == outcome = "continue"

\* the warning a denial for `reason` logs for the current request
Warning(reason) ==
    [format |-> "Forbidden ({}): {}",
     args |-> [reason |-> reason, path |-> PathOf(request.endpoint)]]

-----------------------------------------------------------------------------
(* C1 *)

\* C1: with validation enabled, an unsafe-method, non-exempt request that
\* reaches the token comparison is allowed if and only if the supplied token
\* equals the token compared against and both are non-empty; in every other
\* case, the one where both are empty included, it is not allowed and the
\* reason is 'missing or incorrect token'.
C1_AllowedIffEqualNonEmpty ==
    (HookRan /\ ~_csrf_disable /\ UnsafeMethod /\ ~ViewExempted
       /\ csrf_token # Unassigned)
    => /\ Allowed <=> (request_csrf_token = csrf_token
                        /\ request_csrf_token # EmptyStr /\ csrf_token # EmptyStr)
       /\ ~Allowed => error.reason = REASON_BAD_TOKEN

-----------------------------------------------------------------------------
(* C2 *)

\* the request is a plaintext POST that sends back exactly the cookies the
\* client received and carries the rendered token in its form field
RoundTripPost ==
    /\ request.method = "POST"
    /\ ~request.is_secure
    /\ request.cookies = jar
    /\ "_csrf_token" \in DOMAIN request.form
    /\ request.form["_csrf_token"] = page_token

\* C2: once the token accessor has bound a token during a request whose
\* response went through the post-request hook, a following plaintext POST
\* that returns the received cookies and the rendered token is allowed.
C2_RoundTripAllowed ==
    (HookRan /\ page_token # Unassigned /\ RoundTripPost) => Allowed

-----------------------------------------------------------------------------
(* C3 *)

\* C3: when the post-request hook has run, a session holding a token means
\* the response carries the cookie _csrf_token with that token and the
\* configured max-age and varies on Cookie; a session holding none means the
\* response is as it was.
C3_CookieIssued ==
    phase = "after" =>
        IF "_csrf_token" \in DOMAIN session
        THEN /\ "_csrf_token" \in DOMAIN response.cookies
             /\ response.cookies["_csrf_token"] =
                    [value |-> session["_csrf_token"], max_age |-> _csrf_timeout]
             /\ "Cookie" \in response.vary
        ELSE response = FreshResponse

-----------------------------------------------------------------------------
(* C4 *)

\* C4: with validation enabled, every unsafe-method request dispatched to a
\* view registered through exempt() is allowed.
C4_ExemptAllowed ==
    (HookRan /\ ~_csrf_disable /\ UnsafeMethod /\ ViewExempted) => Allowed

-----------------------------------------------------------------------------
(* C5 *)

\* C5: the pre-request hook ends in exactly one of 'continue' and '403';
\* a denial is never another exception.
C5_ContinueOr403 == HookRan => outcome \in {"continue", "403"}

-----------------------------------------------------------------------------
(* C6 *)

\* C6: with validation enabled, a plaintext non-exempt POST with no (or an
\* empty) form token whose X-CSRFToken header equals the non-empty canonical
\* token (the session's token, which the client also holds as its cookie)
\* is allowed.
C6_HeaderFallback ==
    (HookRan /\ ~_csrf_disable /\ request.method = "POST" /\ ~request.is_secure
       /\ ~ViewExempted
       /\ Get(request.form, "_csrf_token", EmptyStr) = EmptyStr
       /\ "X-CSRFToken" \in DOMAIN request.headers
       /\ request.headers["X-CSRFToken"] = SessionToken
       /\ SessionToken # EmptyStr
       /\ Get(request.cookies, "_csrf_token", EmptyStr) = SessionToken)
    => Allowed

-----------------------------------------------------------------------------
(* C7 *)

\* C7: a GET, HEAD, OPTIONS or TRACE request is allowed whatever else it
\* carries: no 403, no other failure, and no denial logged.
C7_SafeMethodsAllowed ==
    (HookRan /\ request.method \in {"GET", "HEAD", "OPTIONS", "TRACE"})
    => (Allowed /\ log = <<>> /\ error = NoError)

\* a secure TRACE with no referer of either name and a cookie but no
\* supplied token, under validation, to a view that is not exempt
C7_Witness ==
    /\ HookRan /\ ~_csrf_disable /\ ~ViewExempted
    /\ request.method = "TRACE" /\ request.is_secure
    /\ DOMAIN request.headers = {}
    /\ DOMAIN request.form = {}
    /\ DOMAIN request.cookies = {"_csrf_token"}
    /\ Allowed

-----------------------------------------------------------------------------
(* C8 *)

\* C8: with validation enabled, an unsafe-method, non-exempt request over
\* secure transport with no Referer header is denied with a 403, and the
\* 'no referer' reason is logged with the request path.
C8_NoRefererDenied ==
    (HookRan /\ ~_csrf_disable /\ UnsafeMethod /\ ~ViewExempted
       /\ request.is_secure /\ "Referer" \notin DOMAIN request.headers)
    => /\ outcome = "403"
       /\ error.reason = REASON_NO_REFERER
       /\ log = <<Warning(REASON_NO_REFERER)>>

-----------------------------------------------------------------------------
(* C9 *)

\* the request's Referer differs from the application's root URL in scheme,
\* host or port
RefererOriginDiffers ==
    /\ "Referer" \in DOMAIN request.headers
    /\ LET r == urlparse(request.headers["Referer"])
           a == urlparse(url_root(request))
       IN  r.scheme # a.scheme \/ r.hostname # a.hostname \/ r.port # a.port

\* C9: with validation enabled, an unsafe-method, non-exempt secure request
\* whose Referer differs from the root URL in scheme, host or port is denied
\* with a 403 and a mismatch reason holding both values.
C9_RefererMismatchDenied ==
    (HookRan /\ ~_csrf_disable /\ UnsafeMethod /\ ~ViewExempted
       /\ request.is_secure /\ RefererOriginDiffers)
    => /\ outcome = "403"
       /\ error.reason = REASON_BAD_REFERER(request.headers["Referer"],
                                            url_root(request))

-----------------------------------------------------------------------------
(* C10 *)

\* C10: a token bound to the session stays bound and never changes; the
\* pre-request and post-request hooks leave the session as it is; and every
\* accessor call returns the bound token, the same one as the call before.
C10_TokenStable ==
    [][ /\ "_csrf_token" \in DOMAIN session
            => ("_csrf_token" \in DOMAIN session'
                  /\ session'["_csrf_token"] = session["_csrf_token"])
        /\ (phase' # phase /\ phase' \in {"before", "after"}) => session' = session
        /\ (phase = "view" /\ phase' = "view")
            => /\ page_token' = session'["_csrf_token"]
               /\ page_token # Unassigned => page_token' = page_token
      ]_vars

\* the pre-request hook of a later request has run, after the accessor
\* bound and returned the token in an earlier one whose response went
\* through the post-request hook
C10_Witness ==
    /\ HookRan /\ Allowed
    /\ "_csrf_token" \in DOMAIN session
    /\ page_token = _generate_token(1)
    /\ session["_csrf_token"] = page_token

-----------------------------------------------------------------------------
(* _constant_time_compare, statement by statement                          *)

\* the guard with nothing registered, validation on, and no request in hand
GuardIdle ==
    /\ _exempt_views = <<>>
    /\ _csrf_disable = FALSE
    /\ session = <<>>
    /\ request = NoRequest
    /\ outcome = "none"
    /\ error = NoError
    /\ request_csrf_token = Unassigned
    /\ csrf_token = Unassigned
    /\ log = <<>>
    /\ response = FreshResponse
    /\ jar = <<>>
    /\ page_token = Unassigned
    /\ phase = "idle"

\* the characters of the strings compared: '0', '1', 'a'
Alphabet == {48, 49, 97}

\* the strings of at most n characters
Strings(n) == UNION {[1..k -> Alphabet] : k \in 0..n}

\* result |= ord(x) ^ ord(y), with plain assignment in place of |=
CompareLoopBody_Assigns(result, x, y) == BitXor(ord(x), ord(y))

\* the loop body of _constant_time_compare: result |= ord(x) ^ ord(y)
CompareLoopBody(result, x, y) == BitOr(result, BitXor(ord(x), ord(y)))

\* len(zip(val1, val2))
ZipLen(val1, val2) == IF Len(val1) < Len(val2) THEN Len(val1) ELSE Len(val2)

\* _constant_time_compare(val1, val2) is called
InitCompare ==
    /\ GuardIdle
    /\ calls = <<>>
    /\ exempt_self = NoExempt
    /\ \E a \in Strings(MaxLen), b \in Strings(MaxLen) :
          compare = [pc |-> "len", val1 |-> a, val2 |-> b, i |-> 0, result |-> 0,
                     ret |-> FALSE]

\* if len(val1) != len(val2): return False; else result = 0
CompareLen ==
    /\ compare.pc = "len"
    /\ compare' = IF Len(compare.val1) # Len(compare.val2)
                  THEN [compare EXCEPT !.pc = "done", !.ret = FALSE]
                  ELSE [compare EXCEPT !.pc = "loop", !.result = 0]
    /\ UNCHANGED <<_exempt_views, _csrf_disable, session, request, outcome, error,
                   request_csrf_token, csrf_token, log, response, jar,
                   page_token, phase, calls, exempt_self>>

\* one pass of: for x, y in zip(val1, val2): result |= ord(x) ^ ord(y)
CompareLoop ==
    /\ compare.pc = "loop"
    /\ compare.i < ZipLen(compare.val1, compare.val2)
    /\ compare' = [compare EXCEPT
                     !.i = @ + 1,
                     !.result = CompareLoopBody(@, compare.val1[compare.i + 1],
                                                compare.val2[compare.i + 1])]
    /\ UNCHANGED <<_exempt_views, _csrf_disable, session, request, outcome, error,
                   request_csrf_token, csrf_token, log, response, jar,
                   page_token, phase, calls, exempt_self>>

\* the loop is exhausted: return result == 0
CompareReturn ==
    /\ compare.pc = "loop"
    /\ compare.i = ZipLen(compare.val1, compare.val2)
    /\ compare' = [compare EXCEPT !.pc = "done", !.ret = (compare.result = 0)]
    /\ UNCHANGED <<_exempt_views, _csrf_disable, session, request, outcome, error,
                   request_csrf_token, csrf_token, log, response, jar,
                   page_token, phase, calls, exempt_self>>

NextCompare == CompareLen \/ CompareLoop \/ CompareReturn

SpecCompare == InitCompare /\ [][NextCompare]_vars

-----------------------------------------------------------------------------
(* C11 *)

\* C11: _constant_time_compare(A, B) returns true exactly when A = B; it
\* returns false for every pair of unequal length; for inputs of equal
\* length its loop has run once for every position when it returns, wherever
\* the first mismatch is; and the value is the one the pre-request hook's
\* comparison uses.
C11_ConstantTimeCompare ==
    compare.pc = "done" =>
        /\ compare.ret <=> (compare.val1 = compare.val2)
        /\ Len(compare.val1) # Len(compare.val2) => ~compare.ret
        /\ Len(compare.val1) = Len(compare.val2) => compare.i = Len(compare.val1)
        /\ compare.ret = _constant_time_compare(compare.val1, compare.val2)

\* '0a' against '1a' has returned: the mismatch is at the first position,
\* and the loop went on over the second
C11_Witness ==
    /\ compare.pc = "done"
    /\ compare.val1 = <<48, 97>> /\ compare.val2 = <<49, 97>>
    /\ compare.i = 2 /\ ~compare.ret

-----------------------------------------------------------------------------
(* C12 *)

\* C12: validation is disabled exactly when CSRF_DISABLE is true, or is not
\* set while TESTING is true; and when it is disabled the pre-request hook
\* allows every request, whatever its method, transport, referer and tokens,
\* and logs no denial.
C12_DisabledAllowsAll ==
    /\ \A config \in Configs :
          init_app_csrf_disable(config) <=>
             \/ "CSRF_DISABLE" \in DOMAIN config /\ config["CSRF_DISABLE"]
             \/ /\ "CSRF_DISABLE" \notin DOMAIN config
                /\ "TESTING" \in DOMAIN config /\ config["TESTING"]
    /\ (HookRan /\ _csrf_disable) => (Allowed /\ log = <<>> /\ error = NoError)

\* with validation disabled, a secure POST with no referer of either name
\* and a cookie but no supplied token has been allowed
C12_Witness ==
    /\ HookRan /\ _csrf_disable /\ ~ViewExempted
    /\ request.method = "POST" /\ request.is_secure
    /\ DOMAIN request.headers = {}
    /\ DOMAIN request.form = {}
    /\ DOMAIN request.cookies = {"_csrf_token"}
    /\ Allowed

-----------------------------------------------------------------------------
(* C13 *)

\* the token the client supplies, as the claims have it: the form field of a
\* POST, else the X-CSRFToken header, else ''
ClaimedSupplied ==
    LET form_token == IF request.method = "POST"
                      THEN Get(request.form, "_csrf_token", EmptyStr)
                      ELSE EmptyStr
    IN  IF form_token # EmptyStr THEN form_token
        ELSE Get(request.headers, "X-CSRFToken", EmptyStr)

\* C13: the token the pre-request hook compares against is the one bound to
\* the session ('' when none is bound); an unsafe-method, non-exempt request
\* whose supplied token equals the _csrf_token cookie it sent but differs
\* from the session's token is not allowed.
C13_CanonicalIsSessionToken ==
    (HookRan /\ ~_csrf_disable /\ UnsafeMethod /\ ~ViewExempted)
    => /\ csrf_token # Unassigned => csrf_token = SessionToken
       /\ ("_csrf_token" \in DOMAIN request.cookies
             /\ ClaimedSupplied = request.cookies["_csrf_token"]
             /\ ClaimedSupplied # SessionToken)
          => ~Allowed

-----------------------------------------------------------------------------
(* C14 *)

\* the request's Referer has the scheme, host and port of the root URL
RefererSameOrigin ==
    /\ "Referer" \in DOMAIN request.headers
    /\ LET r == urlparse(request.headers["Referer"])
           a == urlparse(url_root(request))
       IN  r.scheme = a.scheme /\ r.hostname = a.hostname /\ r.port = a.port

\* C14: with validation enabled, an unsafe-method, non-exempt request over
\* secure transport whose Referer has the root URL's scheme, host and port
\* and whose supplied token equals the non-empty canonical token (the
\* session's token, which the client also holds as its cookie) is allowed.
C14_SecureHappyPath ==
    (HookRan /\ ~_csrf_disable /\ UnsafeMethod /\ ~ViewExempted
       /\ request.is_secure /\ RefererSameOrigin
       /\ ClaimedSupplied = SessionToken /\ SessionToken # EmptyStr
       /\ Get(request.cookies, "_csrf_token", EmptyStr) = SessionToken)
    => Allowed

-----------------------------------------------------------------------------
(* C16 *)

\* C16: the checks run in the order disabled, safe method, exemption,
\* referer presence, referer origin, token: with validation enabled, an unsafe
\* request to an exempt view over secure transport with no Referer is
\* allowed; one to a non-exempt view is denied for 'no referer' whatever its
\* token; and every denied request has logged exactly one warning, with the
\* reason of the check that failed and the request path.
C16_OrderAndSingleReason ==
    (HookRan /\ ~_csrf_disable /\ UnsafeMethod)
    => /\ (ViewExempted /\ request.is_secure
             /\ "Referer" \notin DOMAIN request.headers) => Allowed
       /\ (~ViewExempted /\ request.is_secure
             /\ "Referer" \notin DOMAIN request.headers)
          => (~Allowed /\ error.reason = REASON_NO_REFERER)
       /\ ~Allowed => log = <<Warning(error.reason)>>

-----------------------------------------------------------------------------
(* C17 *)

\* C17: when the hook reaches the comparison, the supplied token it compares
\* is the non-empty form field of a POST, else (empty or absent field, or
\* any other unsafe method) the X-CSRFToken header, else ''; so a POST with
\* a wrong form token is not allowed even with the right token in the header.
C17_SuppliedTokenSource ==
    (HookRan /\ request_csrf_token # Unassigned)
    => /\ request_csrf_token = ClaimedSupplied
       /\ (request.method = "POST"
             /\ Get(request.form, "_csrf_token", EmptyStr) # EmptyStr
             /\ request.form["_csrf_token"] # csrf_token)
          => ~Allowed

-----------------------------------------------------------------------------
(* _set_token called by concurrent requests of one session, statement by   *)
(* statement                                                               *)

\* the concurrent requests calling the token accessor
Callers == {1, 2, 3}

\* the requests are about to call _set_token, on a session with no token
InitAccessor ==
    /\ GuardIdle
    /\ compare = NoCompare
    /\ exempt_self = NoExempt
    /\ calls = [c \in Callers |->
                  [pc |-> "generate", csrf_token |-> Unassigned, ret |-> Unassigned]]

\* csrf_token = self._generate_token()
Generate(c, rand) ==
    /\ calls[c].pc = "generate"
    /\ calls' = [calls EXCEPT ![c].csrf_token = _generate_token(rand),
                              ![c].pc = "test"]
    /\ UNCHANGED <<_exempt_views, _csrf_disable, session, request, outcome, error,
                   request_csrf_token, csrf_token, log, response, jar,
                   page_token, phase, compare, exempt_self>>

\* if '_csrf_token' not in session:
TestAbsent(c) ==
    /\ calls[c].pc = "test"
    /\ calls' = [calls EXCEPT ![c].pc = IF "_csrf_token" \notin DOMAIN session
                                        THEN "bind" ELSE "return"]
    /\ UNCHANGED <<_exempt_views, _csrf_disable, session, request, outcome, error,
                   request_csrf_token, csrf_token, log, response, jar,
                   page_token, phase, compare, exempt_self>>

\* session['_csrf_token'] = csrf_token
Bind(c) ==
    /\ calls[c].pc = "bind"
    /\ session' = ("_csrf_token" :> calls[c].csrf_token) @@ session
    /\ calls' = [calls EXCEPT ![c].pc = "return"]
    /\ UNCHANGED <<_exempt_views, _csrf_disable, request, outcome, error,
                   request_csrf_token, csrf_token, log, response, jar,
                   page_token, phase, compare, exempt_self>>

\* return session['_csrf_token']
ReturnToken(c) ==
    /\ calls[c].pc = "return"
    /\ calls' = [calls EXCEPT ![c].ret = session["_csrf_token"], ![c].pc = "done"]
    /\ UNCHANGED <<_exempt_views, _csrf_disable, session, request, outcome, error,
                   request_csrf_token, csrf_token, log, response, jar,
                   page_token, phase, compare, exempt_self>>

NextAccessor ==
    \E c \in Callers :
        \/ \E rand \in 0..(MaxCsrfKey - 1) : Generate(c, rand)
        \/ TestAbsent(c)
        \/ Bind(c)
        \/ ReturnToken(c)

SpecAccessor == InitAccessor /\ [][NextAccessor]_vars

-----------------------------------------------------------------------------
(* C15 *)

\* C15: any two concurrent accessor calls on a session that had no token
\* return the same token, under every interleaving of their statements, and
\* once the calls are over that token is the one the session holds.
C15_ConcurrentFirstAccess ==
    /\ \A c, d \in Callers :
          (calls[c].pc = "done" /\ calls[d].pc = "done")
          => calls[c].ret = calls[d].ret
    /\ (\A c \in Callers : calls[c].pc = "done")
       => \A c \in Callers : calls[c].ret = session["_csrf_token"]

-----------------------------------------------------------------------------
(* Several SeaSurf instances in one process                                *)

\* the SeaSurf instances constructed at startup
Guards == {"A", "B"}

\* self._exempt_views on the instance `self`: neither __init__ nor init_app
\* nor exempt assigns the attribute on the instance, so the lookup ends at the
\* class attribute of line 98, one list object for the whole class
exempt_views_of(self) == _exempt_views

\* the views route setup may pass to exempt()
GuardViews == {view_functions[e] : e \in Endpoints}

\* the requests the guards' hooks are run on
GuardRequests ==
    { [method |-> m, endpoint |-> e, is_secure |-> FALSE, headers |-> <<>>,
       form |-> Field("_csrf_token", f), cookies |-> Field("_csrf_token", c)] :
        m \in {"GET", "POST"}, e \in Endpoints,
        f \in Optional({_generate_token(0)}), c \in Optional(ClientTokens) }

\* the guards are constructed, none has exempted a view or seen a request
InitGuards ==
    /\ GuardIdle
    /\ compare = NoCompare
    /\ calls = <<>>
    /\ exempt_self = NoExempt

\* self.exempt(view): self._exempt_views.append(view); return view
ExemptOn(self, view) ==
    /\ phase = "idle"
    /\ Len(exempt_views_of(self)) < MaxExempt
    /\ _exempt_views' = Append(exempt_views_of(self), view)
    /\ exempt_self' = [self |-> self, view |-> view, ret |-> view]
    /\ UNCHANGED <<_csrf_disable, session, request, outcome, error,
                   request_csrf_token, csrf_token, log, response, jar,
                   page_token, phase, compare, calls>>

\* the pre-request hook of the instance `self` runs on a request
GuardHook(self, req) ==
    /\ phase = "idle"
    /\ request' = req
    /\ LET r == _before_request(req)
       IN  /\ outcome' = r.outcome
           /\ error' = r.error
           /\ log' = r.log
           /\ request_csrf_token' = r.request_csrf_token
           /\ csrf_token' = r.csrf_token
    /\ phase' = "before"
    /\ UNCHANGED <<_exempt_views, _csrf_disable, session, response, jar,
                   page_token, compare, calls, exempt_self>>

\* the hook has returned or raised, and the request is over
GuardReturn ==
    /\ phase = "before"
    /\ phase' = "idle"
    /\ request' = NoRequest
    /\ outcome' = "none"
    /\ error' = NoError
    /\ log' = <<>>
    /\ request_csrf_token' = Unassigned
    /\ csrf_token' = Unassigned
    /\ UNCHANGED <<_exempt_views, _csrf_disable, session, response, jar,
                   page_token, compare, calls, exempt_self>>

NextGuards ==
    \/ \E self \in Guards, view \in GuardViews : ExemptOn(self, view)
    \/ \E self \in Guards, req \in GuardRequests : GuardHook(self, req)
    \/ GuardReturn

SpecGuards == InitGuards /\ [][NextGuards]_vars

\* C18: exempt(view) on one SeaSurf instance leaves the exemption list that
\* every other instance sees as it was, and with it the decision every other
\* instance makes on every request.
C18_ExemptionOwnedByInstance ==
    [][\A self \in Guards, view \in GuardViews :
          ExemptOn(self, view)
          => \A other \in Guards \ {self} :
                /\ exempt_views_of(other)' = exempt_views_of(other)
                /\ \A req \in GuardRequests :
                      _before_request(req)' = _before_request(req)]_vars

\* C19: exempt(view) for a view the guard has already registered leaves the
\* stored exemptions as they were after the first call, leaves the decision
\* on every request as it was, and returns the view it was given.
C19_ExemptIdempotent ==
    [][\A self \in Guards, view \in GuardViews :
          (ExemptOn(self, view) /\ InList(view, exempt_views_of(self)))
          => /\ exempt_views_of(self)' = exempt_views_of(self)
             /\ \A req \in GuardRequests :
                   _before_request(req)' = _before_request(req)
             /\ exempt_self'.ret = view]_vars

====
